---- MODULE Spec2Model ----
(***************************************************************************)
(* Stratified area and accuracy estimators of src/src/area_utils_refac.py. *)
(*                                                                         *)
(* Numbers.  A numpy float64 is modelled as an exact rational extended     *)
(* with the IEEE special values: [k |-> "fin", n, d] is n/d in lowest      *)
(* terms with d > 0, NaN is "not a number", PInf and NInf the infinities.  *)
(* Rounding of float64 and the sign of zero are not modelled; division by  *)
(* zero, 0/0 and the arithmetic of inf and nan are.                        *)
(*                                                                         *)
(* Arrays.  A 1-d array is a sequence of numbers, a 2-d array a sequence   *)
(* of rows.  An elementwise operation broadcasts as numpy does and a       *)
(* failed broadcast is the exception ValueError.                           *)
(***************************************************************************)
EXTENDS Integers, Sequences, FiniteSets, TLC

\* ------------------------------------------------------------ numbers --

RECURSIVE GCD(_, _)
GCD(a, b) == IF b = 0 THEN a ELSE GCD(b, a % b)

Abs(x) == IF x < 0 THEN -x ELSE x

NaN == [k |-> "nan", n |-> 0, d |-> 0]
PInf == [k |-> "inf", n |-> 1, d |-> 0]
NInf == [k |-> "inf", n |-> -1, d |-> 0]

\* The rational n/d, d # 0, in lowest terms with a positive denominator.
Rat(n, d) ==
    LET g == GCD(Abs(n), Abs(d))
        s == IF d < 0 THEN -1 ELSE 1
    IN [k |-> "fin", n |-> s * (n \div g), d |-> s * (d \div g)]

Num(n) == [k |-> "fin", n |-> n, d |-> 1]
Zero == Num(0)
One == Num(1)

IsNaN(x) == x.k = "nan"
IsInf(x) == x.k = "inf"
IsFin(x) == x.k = "fin"
Sign(x) == IF x.n > 0 THEN 1 ELSE IF x.n < 0 THEN -1 ELSE 0
Inf(s) == IF s > 0 THEN PInf ELSE NInf

Neg(x) == IF IsFin(x) THEN [x EXCEPT !.n = -x.n]
          ELSE IF IsInf(x) THEN Inf(-x.n) ELSE NaN

Add(x, y) ==
    IF IsNaN(x) \/ IsNaN(y) THEN NaN
    ELSE IF IsInf(x) /\ IsInf(y) THEN (IF x = y THEN x ELSE NaN)
    ELSE IF IsInf(x) THEN x
    ELSE IF IsInf(y) THEN y
    ELSE LET g == GCD(x.d, y.d)
         IN Rat(x.n * (y.d \div g) + y.n * (x.d \div g), x.d * (y.d \div g))

Sub(x, y) == Add(x, Neg(y))

Mul(x, y) ==
    IF IsNaN(x) \/ IsNaN(y) THEN NaN
    ELSE IF IsInf(x) \/ IsInf(y)
         THEN (IF Sign(x) * Sign(y) = 0 THEN NaN ELSE Inf(Sign(x) * Sign(y)))
    ELSE LET g1 == GCD(Abs(x.n), y.d)
             g2 == GCD(Abs(y.n), x.d)
         IN Rat((x.n \div g1) * (y.n \div g2), (x.d \div g2) * (y.d \div g1))

\* numpy true division: x/0 is +-inf, 0/0 is nan (a warning, no exception).
Div(x, y) ==
    IF IsNaN(x) \/ IsNaN(y) THEN NaN
    ELSE IF IsInf(y) THEN (IF IsInf(x) THEN NaN ELSE Zero)
    ELSE IF Sign(y) = 0
         THEN (IF Sign(x) = 0 THEN NaN ELSE Inf(Sign(x)))
    ELSE IF IsInf(x) THEN Inf(Sign(x) * Sign(y))
    ELSE Mul(x, Rat(y.d, y.n))

Sq(x) == Mul(x, x)

\* x <= y; false as soon as one side is nan, as every IEEE comparison is.
Leq(x, y) ==
    IF IsNaN(x) \/ IsNaN(y) THEN FALSE
    ELSE IF x = y THEN TRUE
    ELSE IF IsInf(x) THEN x = NInf
    ELSE IF IsInf(y) THEN y = PInf
    ELSE x.n * y.d <= y.n * x.d

\* ------------------------------------------------------------- arrays --
\* Every array an operator builds ends in "\o <<>>": the value is the same
\* and TLC then holds it as a tuple, instead of evaluating its entries anew
\* at every use.

NRows(m) == Len(m)
NCols(m) == Len(m[1])

RECURSIVE SumSeq(_)
SumSeq(s) == IF Len(s) = 0 THEN Zero ELSE Add(SumSeq(SubSeq(s, 1, Len(s) - 1)), s[Len(s)])

\* m.sum(axis = 0): one total per column.
SumAxis0(m) ==
    [j \in 1..NCols(m) |-> SumSeq([i \in 1..NRows(m) |-> m[i][j]] \o <<>>)] \o <<>>
\* m.sum(axis = 1): one total per row.
SumAxis1(m) == [i \in 1..NRows(m) |-> SumSeq(m[i])] \o <<>>

Min(a, b) == IF a < b THEN a ELSE b
Max(a, b) == IF a > b THEN a ELSE b

\* np.diag(m) of a 2-d array: the main diagonal, min(rows, cols) entries.
Diag(m) == [i \in 1..Min(NRows(m), NCols(m)) |-> m[i][i]] \o <<>>

\* numpy broadcasting of two axis lengths.
BcOK(a, b) == a = b \/ a = 1 \/ b = 1
BcIx(i, len) == IF len = 1 THEN 1 ELSE i

\* The integer counts of an array as float64 numbers.
AsFloatV(v) == [j \in 1..Len(v) |-> Num(v[j])] \o <<>>
AsFloatM(m) == [i \in 1..NRows(m) |-> AsFloatV(m[i])] \o <<>>

\* The arithmetic operator op of two float64 numbers.
Ap(op, x, y) ==
    CASE op = "+" -> Add(x, y)
      [] op = "*" -> Mul(x, y)
      [] op = "/" -> Div(x, y)

\* Elementwise binary operations with numpy broadcasting; the caller has
\* checked BcOK on the axis lengths.
BcVV(op, v, w) ==
    [j \in 1..Max(Len(v), Len(w)) |->
        Ap(op, v[BcIx(j, Len(v))], w[BcIx(j, Len(w))])] \o <<>>
BcVM(op, v, m) ==
    [i \in 1..NRows(m) |->
        [j \in 1..Max(Len(v), NCols(m)) |->
            Ap(op, v[BcIx(j, Len(v))], m[i][BcIx(j, NCols(m))])] \o <<>>] \o <<>>
BcMV(op, m, v) ==
    [i \in 1..NRows(m) |->
        [j \in 1..Max(Len(v), NCols(m)) |->
            Ap(op, m[i][BcIx(j, NCols(m))], v[BcIx(j, Len(v))])] \o <<>>] \o <<>>
BcMM(op, m, q) ==
    [i \in 1..NRows(m) |->
        [j \in 1..Max(NCols(m), NCols(q)) |->
            Ap(op, m[i][BcIx(j, NCols(m))], q[i][BcIx(j, NCols(q))])] \o <<>>] \o <<>>

\* Scalar-with-array operations: 1 - x, x - 1, x ** 2.
OneMinusV(v) == [j \in 1..Len(v) |-> Sub(One, v[j])] \o <<>>
OneMinusM(m) == [i \in 1..NRows(m) |-> OneMinusV(m[i])] \o <<>>
\* A variant of MinusOneV that leaves the totals as they are.
MinusZeroV(v) == v
MinusOneV(v) == [j \in 1..Len(v) |-> Sub(v[j], One)] \o <<>>
SqV(v) == [j \in 1..Len(v) |-> Sq(v[j])] \o <<>>

\* The length of the broadcast of two axis lengths; 0 when it fails (or when
\* an earlier broadcast of the same expression has failed).
BcLen(a, b) == IF a = 0 \/ b = 0 \/ ~BcOK(a, b) THEN 0 ELSE Max(a, b)

\* --------------------------------------------------- unsigned 64 bits --
\* A uint64 is its UInt64Bits / 8 bytes, least significant first.

UInt64Bits == 64

RECURSIVE ToBytes(_, _)
ToBytes(a, n) == IF n = 0 THEN <<>> ELSE <<a % 256>> \o ToBytes(a \div 256, n - 1)

\* a.astype(np.uint64) of an int64 a: the value modulo 2^64 (two's complement).
astype_uint64(a) == ToBytes(a, UInt64Bits \div 8)

RECURSIVE ColumnSum(_, _, _, _)
ColumnSum(x, y, k, i) ==
    IF i > k THEN 0 ELSE x[i] * y[k + 1 - i] + ColumnSum(x, y, k, i + 1)

RECURSIVE MulColumns(_, _, _, _)
MulColumns(x, y, k, carry) ==
    IF k > Len(x) THEN <<>>
    ELSE LET t == carry + ColumnSum(x, y, k, 1)
         IN <<t % 256>> \o MulColumns(x, y, k + 1, t \div 256)

\* x * y of two uint64: the product modulo 2^64, the high bytes are dropped.
uint64_mul(x, y) == MulColumns(x, y, 1, 0)

\* The value of a uint64 as a float64 (exact below 2^53).
RECURSIVE BytesValue(_)
BytesValue(b) == IF Len(b) = 0 THEN 0 ELSE b[1] + 256 * BytesValue(Tail(b))
uint64_to_float(x) == Num(BytesValue(x))

\* ------------------------------------------------- results of a call --

NoArr == <<>>
NoNum == [k |-> "none", n |-> 0, d |-> 0]

Return(v) == [exc |-> "none", val |-> v]
Raise(e) == [exc |-> e, val |-> NoArr]

\* ---------------------------------------------------- the estimators --
\* cm holds integer sample counts (rows = reference, columns = mapped);
\* w_j, am, u_j, p_i hold float64 numbers; a_j holds integer pixel counts.

\* A variant that divides by the row totals, cm.sum(axis = 1).
compute_area_error_matrix_by_rows(cm, w_j) ==
    LET n_idot == SumAxis1(AsFloatM(cm))
    IN IF BcLen(BcLen(Len(w_j), NCols(cm)), Len(n_idot)) = 0
       THEN Raise("ValueError")
       ELSE Return([i \in 1..NRows(cm) |-> [j \in 1..NCols(cm) |->
                Div(Mul(w_j[BcIx(j, Len(w_j))], Num(cm[i][j])), n_idot[i])]])

\* compute_area_error_matrix: area_matrix = (w_j * cm) / cm.sum(axis = 0).
compute_area_error_matrix(cm, w_j) ==
    LET n_dotj == SumAxis0(AsFloatM(cm))
    IN IF BcLen(BcLen(Len(w_j), NCols(cm)), Len(n_dotj)) = 0
       THEN Raise("ValueError")
       ELSE Return(BcMV("/", BcVM("*", w_j, AsFloatM(cm)), n_dotj))

\* A variant that normalises by the row totals, am.sum(axis = 1).
compute_u_j_by_rows(am) ==
    LET p_jjs == Diag(am)
        p_jdots == SumAxis1(am)
    IN IF BcLen(Len(p_jjs), Len(p_jdots)) = 0
       THEN Raise("ValueError")
       ELSE Return(BcVV("/", p_jjs, p_jdots))

\* A variant that refuses a zero total, as Python's scalar division does.
compute_u_j_raising(am) ==
    IF \E j \in 1..NCols(am) : SumAxis0(am)[j] = Zero \/ IsNaN(SumAxis0(am)[j])
    THEN Raise("ZeroDivisionError")
    ELSE Return(BcVV("/", Diag(am), SumAxis0(am)))

\* compute_u_j: np.diag(am) / am.sum(axis = 0).
compute_u_j(am) ==
    LET p_jjs == Diag(am)
        p_dotjs == SumAxis0(am)
    IN IF BcLen(Len(p_jjs), Len(p_dotjs)) = 0
       THEN Raise("ValueError")
       ELSE Return(BcVV("/", p_jjs, p_dotjs))

\* compute_p_i: np.diag(am) / am.sum(axis = 1).
compute_p_i(am) ==
    LET p_iis == Diag(am)
        p_idots == SumAxis1(am)
    IN IF BcLen(Len(p_iis), Len(p_idots)) = 0
       THEN Raise("ValueError")
       ELSE Return(BcVV("/", p_iis, p_idots))

\* A variant with the factor (u_j - 1) in place of (1 - u_j).
compute_var_u_j_flipped(u_j, cm) ==
    LET n_dotj == SumAxis0(AsFloatM(cm))
    IN IF BcLen(Len(u_j), Len(n_dotj)) = 0
       THEN Raise("ValueError")
       ELSE Return(BcVV("/", BcVV("*", u_j, MinusOneV(u_j)), MinusOneV(n_dotj)))

\* compute_var_u_j: u_j * (1 - u_j) / (cm.sum(axis = 0) - 1).
compute_var_u_j(u_j, cm) ==
    LET n_dotj == SumAxis0(AsFloatM(cm))
    IN IF BcLen(Len(u_j), Len(n_dotj)) = 0
       THEN Raise("ValueError")
       ELSE Return(BcVV("/", BcVV("*", u_j, OneMinusV(u_j)), MinusOneV(n_dotj)))

\* A variant that totals the whole matrix, am.sum().
compute_acc_all(am) == Return(SumSeq(SumAxis1(am)))

\* compute_acc: np.diag(am).sum().
compute_acc(am) == Return(SumSeq(Diag(am)))

\* compute_var_acc: ((w_j ** 2) * u_j * (1 - u_j) / (cm.sum(axis = 0) - 1)).sum().
compute_var_acc(w_j, u_j, cm) ==
    LET n_dotj == SumAxis0(AsFloatM(cm))
    IN IF BcLen(BcLen(Len(w_j), Len(u_j)), Len(n_dotj)) = 0
       THEN Raise("ValueError")
       ELSE Return(SumSeq(BcVV("/",
                BcVV("*", BcVV("*", SqV(w_j), u_j), OneMinusV(u_j)),
                MinusOneV(n_dotj))))

\* np.fill_diagonal(a, 0.0) of a 2-d array a, in place.
FillDiagonal(a, v) ==
    [i \in 1..NRows(a) |->
        [j \in 1..NCols(a) |-> IF i = j THEN v ELSE a[i][j]] \o <<>>] \o <<>>

\* A variant that zeroes the diagonal of cm itself before the ratios are
\* taken from it, instead of the diagonals of the two derived arrays.
zero_diagonals_in_place(st) ==
    LET cm0 == FillDiagonal(st.cm, 0)
    IN [st EXCEPT !.cm = cm0,
                  !.cm_div = FillDiagonal(st.cm_div, Zero),
                  !.cm_div_comp = FillDiagonal(st.cm_div_comp, Zero)]

\* A variant of zero_diagonals that zeroes nothing.
zero_diagonals_skipped(st) == st

\* np.fill_diagonal(cm_div, 0.0); np.fill_diagonal(cm_div_comp, 0.0)
zero_diagonals(st) ==
    [st EXCEPT !.cm_div = FillDiagonal(st.cm_div, Zero),
               !.cm_div_comp = FillDiagonal(st.cm_div_comp, Zero)]

\* Whether the broadcasts of compute_var_p_i succeed, from the lengths of
\* a_j, p_i, u_j and the shape of cm.
var_p_i_shapes_ok(m, lp, lu, r, c) ==
    LET n_i_px == BcLen(BcLen(m, c), c)
        expr_2 == BcLen(lp, r)
        expr_1 == BcLen(BcLen(BcLen(BcLen(m, lp), lu), lu), c)
    IN n_i_px # 0 /\ BcLen(r, BcLen(expr_1, expr_2)) # 0

\* The squares n_j_px ** 2 of the pixel totals, taken in uint64, as float64.
var_p_i_squares(a_j) ==
    [j \in 1..Len(a_j) |->
        LET n_j_px == astype_uint64(a_j[j])
        IN uint64_to_float(uint64_mul(n_j_px, n_j_px))] \o <<>>

\* The arrays after lines 150-159 of compute_var_p_i: cm_div and cm_div_comp
\* are allocated and their diagonals zeroed.
var_p_i_arrays(st) ==
    LET n_j_su == SumAxis0(AsFloatM(st.cm))
        s1 == [st EXCEPT !.cm_div = BcMV("/", AsFloatM(st.cm), n_j_su)]
        s2 == [s1 EXCEPT !.cm_div_comp = OneMinusM(s1.cm_div)]
    IN zero_diagonals(s2)

\* sigma of line 161: one sum per reference class over the mapped classes.
var_p_i_sigma(st) ==
    LET n_j_su == SumAxis0(AsFloatM(st.cm))
        s3 == var_p_i_arrays(st)
    IN SumAxis1(BcMV("/",
            BcMM("*", BcVM("*", var_p_i_squares(st.a_j), s3.cm_div), s3.cm_div_comp),
            MinusOneV(n_j_su)))

\* compute_var_p_i.  st holds the arrays the body can reach: the caller's
\* p_i, u_j, a_j, cm and the locals cm_div, cm_div_comp that it allocates.
\* The result carries the arrays as the call leaves them.
compute_var_p_i(st) ==
    IF ~var_p_i_shapes_ok(Len(st.a_j), Len(st.p_i), Len(st.u_j),
                          NRows(st.cm), NCols(st.cm))
    THEN [exc |-> "ValueError", val |-> NoArr, st |-> st]
    ELSE
    LET n_j_su == SumAxis0(AsFloatM(st.cm))
        n_i_px == SumAxis1(BcVM("*", BcVV("/", AsFloatV(st.a_j), n_j_su),
                                AsFloatM(st.cm)))
        s3 == var_p_i_arrays(st)
        n_j_px_sq == var_p_i_squares(st.a_j)
        sigma == var_p_i_sigma(st)
        expr_2 == BcVV("*", SqV(s3.p_i), sigma)
        expr_1 == BcVV("/",
                    BcVV("*",
                        BcVV("*", BcVV("*", n_j_px_sq, SqV(OneMinusV(s3.p_i))),
                             s3.u_j),
                        OneMinusV(s3.u_j)),
                    MinusOneV(n_j_su))
    IN [exc |-> "none",
        val |-> BcVV("*", BcVV("/", <<One>>, SqV(n_i_px)), BcVV("+", expr_1, expr_2)),
        st |-> s3]

\* A variant that returns the area proportions in pixels instead of raising.
compute_area_estimate_returning(cm, a_j, w_j) == Return(a_j)

\* compute_area_estimate: the body is a bare "raise NotImplementedError".
compute_area_estimate(cm, a_j, w_j) == Raise("NotImplementedError")

\* -------------------------------------------------------------- state --
\* The caller's workspace: the sample table, the arrays handed to the
\* estimators and the results received from them.  exc is the exception
\* that ended the run ("none" while it is running); est is what
\* compute_area_estimate returned; ncalls counts the calls of
\* compute_var_p_i; n_j_px_sq is the array n_j_px ** 2 of compute_var_p_i
\* where it is followed for large pixel totals.

VARIABLES df, est, n_j_px_sq, cm, w_j, a_j, am, u_j, p_i, acc, var_u_j, var_acc, var_p_i, exc, ncalls

vars == <<df, est, n_j_px_sq, cm, w_j, a_j, am, u_j, p_i, acc, var_u_j, var_acc, var_p_i, exc, ncalls>>

\* Number of classes: the binary map ["Non-Crop", "Crop"].
K == 2
\* Largest number of sample units in an enumerated confusion matrix.
MaxSamples == 5
\* The enumerated area proportions are the multiples of 1/WDen.
WDen == 4

Classes == 1..K

ZeroCM == [i \in Classes |-> [j \in Classes |-> 0]]

\* Every K x K matrix of counts with at most n sample units, built one
\* sample unit at a time.
RECURSIVE CMsWithSamples(_)
CMsWithSamples(n) ==
    IF n = 0 THEN {ZeroCM}
    ELSE LET S == CMsWithSamples(n - 1)
         IN S \cup {[m EXCEPT ![i][j] = @ + 1] : m \in S, i \in Classes, j \in Classes}

ValidCMs == CMsWithSamples(MaxSamples)

\* Weight vectors of length K: entries in [0,1] that sum to 1.
ValidWeights ==
    {w \in [Classes -> {Rat(n, WDen) : n \in 0..WDen}] : SumSeq(w) = One}

\* The two matrices and the weights of the documented scenarios.
ScenarioCM1 == <<<<50, 5>>, <<3, 42>>>>
ScenarioW1 == <<Rat(52, 100), Rat(48, 100)>>
ScenarioCM2 == <<<<10, 0>>, <<5, 0>>>>

SumAll(m) == SumSeq(SumAxis1(AsFloatM(m))).n

\* The variances are explored for the enumerated matrices only: the exact
\* fractions of the larger scenario matrices leave TLC's integer range.
InRange(m) == SumAll(m) <= MaxSamples

Init ==
    /\ df = NoArr /\ est = NoArr /\ n_j_px_sq = NoArr
    /\ cm \in ValidCMs \cup {ScenarioCM1, ScenarioCM2}
    /\ w_j \in ValidWeights \cup {ScenarioW1}
    /\ a_j = NoArr
    /\ am = NoArr /\ u_j = NoArr /\ p_i = NoArr
    /\ acc = NoNum /\ var_u_j = NoArr /\ var_acc = NoNum /\ var_p_i = NoArr
    /\ exc = "none" /\ ncalls = 0

\* am = compute_area_error_matrix(cm, w_j)
Call_compute_area_error_matrix ==
    /\ exc = "none" /\ am = NoArr
    /\ LET r == compute_area_error_matrix(cm, w_j)
       IN /\ exc' = r.exc
          /\ am' = IF r.exc = "none" THEN r.val ELSE am
    /\ UNCHANGED <<df, n_j_px_sq, est, cm, w_j, a_j, u_j, p_i, acc, var_u_j, var_acc, var_p_i, ncalls>>

\* u_j = compute_u_j(am)
Call_compute_u_j ==
    /\ exc = "none" /\ am # NoArr /\ u_j = NoArr
    /\ LET r == compute_u_j(am)
       IN /\ exc' = r.exc
          /\ u_j' = IF r.exc = "none" THEN r.val ELSE u_j
    /\ UNCHANGED <<df, n_j_px_sq, est, cm, w_j, a_j, am, p_i, acc, var_u_j, var_acc, var_p_i, ncalls>>

\* p_i = compute_p_i(am)
Call_compute_p_i ==
    /\ exc = "none" /\ am # NoArr /\ p_i = NoArr
    /\ LET r == compute_p_i(am)
       IN /\ exc' = r.exc
          /\ p_i' = IF r.exc = "none" THEN r.val ELSE p_i
    /\ UNCHANGED <<df, n_j_px_sq, est, cm, w_j, a_j, am, u_j, acc, var_u_j, var_acc, var_p_i, ncalls>>

\* acc = compute_acc(am)
Call_compute_acc ==
    /\ exc = "none" /\ am # NoArr /\ acc = NoNum
    /\ acc' = compute_acc(am).val
    /\ UNCHANGED <<df, n_j_px_sq, est, cm, w_j, a_j, am, u_j, p_i, var_u_j, var_acc, var_p_i, exc, ncalls>>

\* var_u_j = compute_var_u_j(u_j, cm)
Call_compute_var_u_j ==
    /\ exc = "none" /\ u_j # NoArr /\ var_u_j = NoArr /\ InRange(cm)
    /\ LET r == compute_var_u_j(u_j, cm)
       IN /\ exc' = r.exc
          /\ var_u_j' = IF r.exc = "none" THEN r.val ELSE var_u_j
    /\ UNCHANGED <<df, n_j_px_sq, est, cm, w_j, a_j, am, u_j, p_i, acc, var_acc, var_p_i, ncalls>>

\* var_acc = compute_var_acc(w_j, u_j, cm)
Call_compute_var_acc ==
    /\ exc = "none" /\ u_j # NoArr /\ var_acc = NoNum /\ InRange(cm)
    /\ LET r == compute_var_acc(w_j, u_j, cm)
       IN /\ exc' = r.exc
          /\ var_acc' = IF r.exc = "none" THEN r.val ELSE var_acc
    /\ UNCHANGED <<df, n_j_px_sq, est, cm, w_j, a_j, am, u_j, p_i, acc, var_u_j, var_p_i, ncalls>>

Next ==
    \/ Call_compute_area_error_matrix
    \/ Call_compute_u_j
    \/ Call_compute_p_i
    \/ Call_compute_acc
    \/ Call_compute_var_u_j
    \/ Call_compute_var_acc

Spec == Init /\ [][Next]_vars

\* ------------------------------ the variance of producer's accuracy --

\* Largest pixel total of a mapped class.
MaxPixels == 2
\* Largest number of calls of compute_var_p_i in one run.
MaxCalls == 2

\* Pixel totals of the mapped classes, not all zero.
PixelVectors == {a \in [Classes -> 0..MaxPixels] : \E j \in Classes : a[j] > 0}

\* The area proportions of pixel totals a: a / a.sum().
Proportions(a) == LET f == AsFloatV(a) IN [j \in 1..Len(a) |-> Div(f[j], SumSeq(f))]

InitVarPI ==
    /\ df = NoArr /\ est = NoArr /\ n_j_px_sq = NoArr
    /\ cm \in ValidCMs
    /\ a_j \in PixelVectors
    /\ w_j = Proportions(a_j)
    /\ am = NoArr /\ u_j = NoArr /\ p_i = NoArr
    /\ acc = NoNum /\ var_u_j = NoArr /\ var_acc = NoNum /\ var_p_i = NoArr
    /\ exc = "none" /\ ncalls = 0

\* var_p_i = compute_var_p_i(p_i, u_j, a_j, cm); the arrays are passed by
\* reference and come back as the body leaves them.
Call_compute_var_p_i ==
    /\ exc = "none" /\ u_j # NoArr /\ p_i # NoArr /\ ncalls < MaxCalls
    /\ LET r == compute_var_p_i([p_i |-> p_i, u_j |-> u_j, a_j |-> a_j, cm |-> cm,
                                 cm_div |-> NoArr, cm_div_comp |-> NoArr])
       IN /\ exc' = r.exc
          /\ var_p_i' = IF r.exc = "none" THEN r.val ELSE var_p_i
          /\ p_i' = r.st.p_i /\ u_j' = r.st.u_j /\ a_j' = r.st.a_j /\ cm' = r.st.cm
    /\ ncalls' = ncalls + 1
    /\ UNCHANGED <<df, n_j_px_sq, est, w_j, am, acc, var_u_j, var_acc>>

NextVarPI ==
    \/ Call_compute_area_error_matrix
    \/ Call_compute_u_j
    \/ Call_compute_p_i
    \/ Call_compute_var_p_i

SpecVarPI == InitVarPI /\ [][NextVarPI]_vars

\* ---------------------------------------------- arrays of any shape --

\* Largest number of rows, of columns and of vector entries.
MaxDim == 3
\* Largest count on, and off, the diagonal of an enumerated matrix.
MaxFill == 2

\* Matrices of every shape up to MaxDim x MaxDim, square or not.
ShapedCMs ==
    {[i \in 1..r |-> [j \in 1..c |-> IF i = j THEN d ELSE o]] :
        r \in 1..MaxDim, c \in 1..MaxDim, d \in 0..MaxFill, o \in 0..MaxFill}

\* Equal area proportions, and equal pixel totals, of every length.
ShapedWeights == {[j \in 1..m |-> Rat(1, m)] : m \in 1..MaxDim}
ShapedPixels == {[j \in 1..m |-> 1] : m \in 1..MaxDim}

InitShape ==
    /\ df = NoArr /\ est = NoArr /\ n_j_px_sq = NoArr
    /\ cm \in ShapedCMs
    /\ w_j \in ShapedWeights
    /\ a_j \in ShapedPixels
    /\ am = NoArr /\ u_j = NoArr /\ p_i = NoArr
    /\ acc = NoNum /\ var_u_j = NoArr /\ var_acc = NoNum /\ var_p_i = NoArr
    /\ exc = "none" /\ ncalls = 0

\* est = compute_area_estimate(cm, a_j, w_j)
Call_compute_area_estimate ==
    /\ exc = "none"
    /\ LET r == compute_area_estimate(cm, a_j, w_j)
       IN /\ exc' = r.exc
          /\ est' = IF r.exc = "none" THEN r.val ELSE est
    /\ UNCHANGED <<df, n_j_px_sq, cm, w_j, a_j, am, u_j, p_i, acc, var_u_j, var_acc, var_p_i, ncalls>>

NextShape ==
    \/ Call_compute_area_error_matrix
    \/ Call_compute_u_j
    \/ Call_compute_p_i
    \/ Call_compute_var_p_i
    \/ Call_compute_area_estimate

SpecShape == InitShape /\ [][NextShape]_vars

\* ----------------------------------------------- the confusion matrix --

UInt8Bits == 8
\* Largest number of sample records in an enumerated table.
MaxRows == 2

\* Label values a table can hold: class codes, codes outside the binary
\* domain, a non-integer and a missing value (NaN).
LabelValues == {Num(-1), Num(0), Num(1), Num(2), Num(256), Rat(3, 2), NaN}

\* A table is a sequence of records (Reference label, Mapped class).
SampleTables ==
    UNION {[1..n -> LabelValues \X LabelValues] : n \in 1..MaxRows}

IsInteger(x) == IsFin(x) /\ x.d = 1

\* x truncated toward zero, for a finite x.
Trunc(x) == IF x.n >= 0 THEN x.n \div x.d ELSE -((-x.n) \div x.d)

\* One value cast to np.uint8.  From an int64 column the value wraps modulo
\* 2^8.  From a float64 column a value in (-1, 256) is truncated; any other
\* value is outside the range of the C conversion, whose result depends on
\* the build: x86-64 keeps the low byte of the 32-bit conversion (0 for nan
\* and inf), AArch64 saturates the 32-bit conversion before it keeps the low
\* byte.
cast_uint8(x, isfloat, build) ==
    IF ~isfloat THEN x.n % (2 ^ UInt8Bits)
    ELSE IF IsNaN(x) THEN 0
    ELSE IF IsInf(x) THEN (IF build = "aarch64" /\ x = PInf THEN 2 ^ UInt8Bits - 1 ELSE 0)
    ELSE IF Trunc(x) < 0 /\ build = "aarch64" THEN 0
    ELSE Trunc(x) % (2 ^ UInt8Bits)

\* np.array(column).astype(np.uint8): the column is int64 when every value
\* is an integer and float64 otherwise.
astype_uint8(col, build) ==
    LET isfloat == \E i \in 1..Len(col) : ~IsInteger(col[i])
    IN [i \in 1..Len(col) |-> cast_uint8(col[i], isfloat, build)]

RECURSIVE SortedSeq(_)
SortedSeq(S) ==
    IF S = {} THEN <<>>
    ELSE LET lo == CHOOSE x \in S : \A y \in S : x <= y
         IN <<lo>> \o SortedSeq(S \ {lo})

\* sklearn.metrics.confusion_matrix(y_true, y_pred): the classes are the
\* sorted distinct values of both arrays; entry [i][j] counts the records of
\* true class i predicted as class j.
confusion_matrix(y_true, y_pred) ==
    LET labels == SortedSeq({y_true[i] : i \in 1..Len(y_true)}
                            \cup {y_pred[i] : i \in 1..Len(y_pred)})
    IN [i \in 1..Len(labels) |-> [j \in 1..Len(labels) |->
            Cardinality({r \in 1..Len(y_true) :
                            y_true[r] = labels[i] /\ y_pred[r] = labels[j]})]]

\* compute_confusion_matrix(df)
compute_confusion_matrix(table, build) ==
    LET y_true == astype_uint8([i \in 1..Len(table) |-> table[i][1]], build)
        y_pred == astype_uint8([i \in 1..Len(table) |-> table[i][2]], build)
    IN Return(confusion_matrix(y_true, y_pred))

Builds == {"x86_64", "aarch64"}

InitLabel ==
    /\ df \in SampleTables /\ est = NoArr /\ n_j_px_sq = NoArr
    /\ cm = NoArr /\ w_j = NoArr /\ a_j = NoArr
    /\ am = NoArr /\ u_j = NoArr /\ p_i = NoArr
    /\ acc = NoNum /\ var_u_j = NoArr /\ var_acc = NoNum /\ var_p_i = NoArr
    /\ exc = "none" /\ ncalls = 0

\* cm = compute_confusion_matrix(df)
Call_compute_confusion_matrix ==
    /\ exc = "none" /\ cm = NoArr
    /\ \E build \in Builds :
          LET r == compute_confusion_matrix(df, build)
          IN /\ exc' = r.exc
             /\ cm' = IF r.exc = "none" THEN r.val ELSE cm
    /\ UNCHANGED <<df, n_j_px_sq, est, w_j, a_j, am, u_j, p_i, acc, var_u_j, var_acc, var_p_i, ncalls>>

NextLabel == Call_compute_confusion_matrix

SpecLabel == InitLabel /\ [][NextLabel]_vars

\* ------------------------------------------- squares of pixel totals --
\* Pixel totals of 2^31 and above do not fit the integers of the model
\* checker, let alone the exact fractions that follow from them.  For such
\* totals the body of compute_var_p_i is followed as far as n_j_px ** 2, on
\* bytes: a non-negative int64 is its eight bytes, least significant first.

\* Largest byte value of an enumerated pixel total.
MaxDigit == 2

\* The int64 lo + hi * 256^e.
PixelBytes(lo, hi, e) ==
    [i \in 1..(UInt64Bits \div 8) |->
        (IF i = 1 THEN lo ELSE 0) + (IF i = e + 1 THEN hi ELSE 0)]

\* Pixel totals from 0 up to 256^7 * MaxDigit + MaxDigit.
LargePixelCounts ==
    {PixelBytes(lo, hi, e) :
        lo \in 0..MaxDigit, hi \in 0..MaxDigit, e \in 1..(UInt64Bits \div 8 - 1)}

\* b padded with zero bytes, or cut, to n bytes: the value modulo 256^n.
Resize(b, n) == [i \in 1..n |-> IF i <= Len(b) THEN b[i] ELSE 0]

\* a.astype(np.uint64) of a non-negative int64 given by its bytes.
astype_uint64_bytes(b) == Resize(b, UInt64Bits \div 8)

\* n_j_px ** 2 for one mapped class: the uint64 product of line 161.
n_j_px_squared(b) ==
    LET n_j_px == astype_uint64_bytes(b) IN uint64_mul(n_j_px, n_j_px)

InitSquare ==
    /\ df = NoArr /\ est = NoArr /\ n_j_px_sq = NoArr
    /\ cm = NoArr /\ w_j = NoArr
    /\ a_j \in [Classes -> LargePixelCounts]
    /\ am = NoArr /\ u_j = NoArr /\ p_i = NoArr
    /\ acc = NoNum /\ var_u_j = NoArr /\ var_acc = NoNum /\ var_p_i = NoArr
    /\ exc = "none" /\ ncalls = 0

\* n_j_px = a_j.astype(np.uint64) ... n_j_px ** 2
Step_n_j_px_squared ==
    /\ exc = "none" /\ n_j_px_sq = NoArr
    /\ n_j_px_sq' = [j \in 1..Len(a_j) |-> n_j_px_squared(a_j[j])]
    /\ UNCHANGED <<est, df, cm, w_j, a_j, am, u_j, p_i, acc, var_u_j, var_acc, var_p_i, exc, ncalls>>

NextSquare == Step_n_j_px_squared

SpecSquare == InitSquare /\ [][NextSquare]_vars

\* ------------------------------------------------------------- claims --

ColSums == SumAxis0(AsFloatM(cm))
AllColumnsSampled == \A j \in 1..Len(ColSums) : ColSums[j] # Zero

\* C1 as stated: for every valid cm and valid w_j, each column j of the area
\* error matrix sums to w_j[j].
C1_AsStated ==
    am # NoArr => \A j \in 1..NCols(am) : SumAxis0(am)[j] = w_j[j]

\* C1 amended: for every valid cm in which every mapped class has at least one
\* sample and every valid w_j, each column j of the area error matrix sums to
\* w_j[j]; a column without samples sums to NaN.
C1_ColumnSums ==
    am # NoArr =>
        \A j \in 1..NCols(am) :
            SumAxis0(am)[j] = IF ColSums[j] # Zero THEN w_j[j] ELSE NaN

C1_Witness ==
    /\ am # NoArr /\ AllColumnsSampled
    /\ cm[1][2] > 0 /\ cm[2][1] > 0 /\ w_j[1] # Zero /\ w_j[2] # Zero

\* x rounded to four decimals, as the integer round(10000 * x), for x >= 0.
Round4(x) == (20000 * x.n + x.d) \div (2 * x.d)

\* C2 as stated: for cm = [[50,5],[3,42]] and w_j = [0.52, 0.48] the user's
\* accuracies are [0.9615, 0.8936] to four decimals.
C2_AsStated ==
    (cm = ScenarioCM1 /\ w_j = ScenarioW1 /\ u_j # NoArr) =>
        (Round4(u_j[1]) = 9615 /\ Round4(u_j[2]) = 8936)

\* C2 amended: for cm = [[50,5],[3,42]] and w_j = [0.52, 0.48] the user's
\* accuracies are [0.9434, 0.8936] to four decimals (50/53 and 42/47).
C2_Scenario1 ==
    (cm = ScenarioCM1 /\ w_j = ScenarioW1 /\ u_j # NoArr) =>
        (Round4(u_j[1]) = 9434 /\ Round4(u_j[2]) = 8936)

C2_Witness == cm = ScenarioCM1 /\ w_j = ScenarioW1 /\ u_j # NoArr

\* C3 as stated: for cm = [[10,0],[5,0]] compute_u_j raises no error and
\* returns [1.0, NaN].
C3_AsStated ==
    (cm = ScenarioCM2 /\ u_j # NoArr) => (exc = "none" /\ u_j = <<One, NaN>>)

\* C3 amended: for cm = [[10,0],[5,0]] and a w_j whose first entry is positive,
\* the pipeline raises no error and compute_u_j returns [2/3, NaN]: 10/15 for
\* the first class and NaN for the class without samples.
C3_Scenario2 ==
    (cm = ScenarioCM2 /\ w_j[1] # Zero /\ am # NoArr) =>
        /\ exc = "none"
        /\ u_j # NoArr => u_j = <<Rat(2, 3), NaN>>

C3_Witness == cm = ScenarioCM2 /\ w_j[1] # Zero /\ u_j # NoArr /\ exc = "none"

\* C4: when exactly one mapped class has no samples and every other class has,
\* no error is raised and the user's and producer's accuracies of every other
\* class are defined numbers.
C4_NaNConfined ==
    (/\ u_j # NoArr /\ p_i # NoArr
     /\ Cardinality({j \in Classes : ColSums[j] = Zero}) = 1
     /\ \A j \in Classes : w_j[j] # Zero) =>
        /\ exc = "none"
        /\ \A j \in Classes :
              ColSums[j] # Zero => (IsFin(u_j[j]) /\ IsFin(p_i[j]))

AllColumnsAboveOne == \A j \in 1..Len(ColSums) : ~Leq(ColSums[j], One)

NonNegative(x) == IsFin(x) /\ Leq(Zero, x)

\* C5 as stated: for every valid cm whose column sums are all greater than 1
\* and every valid w_j, every entry of compute_var_u_j is a defined value >= 0
\* and compute_var_acc is a defined value >= 0.
C5_AsStated ==
    AllColumnsAboveOne =>
        /\ var_u_j # NoArr => \A j \in Classes : NonNegative(var_u_j[j])
        /\ var_acc # NoNum => NonNegative(var_acc)

\* C5 amended: for every valid cm whose column sums are all greater than 1 and
\* every valid w_j whose entries are all greater than 0, every entry of
\* compute_var_u_j is a defined value >= 0 and compute_var_acc is a defined
\* value >= 0.
C5_VariancesNonNegative ==
    (AllColumnsAboveOne /\ \A j \in Classes : w_j[j] # Zero) =>
        /\ var_u_j # NoArr => \A j \in Classes : NonNegative(var_u_j[j])
        /\ var_acc # NoNum => NonNegative(var_acc)

C5_Witness ==
    /\ AllColumnsAboveOne /\ \A j \in Classes : w_j[j] # Zero
    /\ var_u_j # NoArr /\ var_acc # NoNum
    /\ var_u_j[1] # Zero /\ var_acc # Zero

\* C6: compute_acc(am) is the sum of the diagonal entries of am, and it lies in
\* [0, 1] when every mapped class of cm has at least one sample.
C6_OverallAccuracy ==
    acc # NoNum =>
        /\ acc = Add(am[1][1], am[2][2])
        /\ AllColumnsSampled => (Leq(Zero, acc) /\ Leq(acc, One))

C6_Witness ==
    /\ acc # NoNum /\ AllColumnsSampled
    /\ acc # Zero /\ acc # One /\ cm[1][2] > 0

\* C7: when cm is not square, or the length of w_j or a_j differs from the
\* class count k, a call fails with ShapeMismatchError and no numeric result
\* is returned.
C7_ShapeMismatch ==
    /\ (NRows(cm) # NCols(cm) \/ Len(w_j) # NRows(cm)) =>
            /\ am = NoArr
            /\ exc \in {"none", "ShapeMismatchError", "NotImplementedError"}
    /\ (NRows(cm) # NCols(cm) \/ Len(a_j) # NRows(cm)) => var_p_i = NoArr

ClassCodes == {Num(c) : c \in 0..(K - 1)}

\* C8: compute_confusion_matrix fails with InvalidLabelError and returns no
\* matrix whenever a label is non-finite, non-integer or outside the class
\* codes.
C8_InvalidLabel ==
    (\E i \in 1..Len(df) : df[i][1] \notin ClassCodes \/ df[i][2] \notin ClassCodes) =>
        /\ cm = NoArr
        /\ exc \in {"none", "InvalidLabelError"}

\* C9: compute_area_estimate raises NotImplementedError for every input, valid
\* or not, and never returns a value.
C9_AlwaysRaises ==
    [][Call_compute_area_estimate =>
        (exc' = "NotImplementedError" /\ est' = NoArr)]_vars

C9_Witness ==
    /\ exc = "NotImplementedError" /\ est = NoArr
    /\ NRows(cm) = NCols(cm) /\ Len(w_j) = NRows(cm) /\ Len(a_j) = NRows(cm)
    /\ am # NoArr

\* C10: compute_var_p_i leaves cm, p_i, u_j and a_j as they were, and a call
\* that follows an earlier call with the same arguments returns the same
\* result.
C10_ArgumentsUnchanged ==
    [][Call_compute_var_p_i =>
        /\ cm' = cm /\ p_i' = p_i /\ u_j' = u_j /\ a_j' = a_j
        /\ var_p_i # NoArr => var_p_i' = var_p_i]_vars

C10_Witness ==
    /\ ncalls = 2 /\ exc = "none" /\ var_p_i # NoArr
    /\ cm[1][1] > 0 /\ cm[2][2] > 0 /\ cm[1][2] > 0
    /\ \A i \in Classes : IsFin(var_p_i[i]) /\ var_p_i[i] # Zero

\* The mathematical value b * b of a non-negative int64, on twice the bytes.
ExactSquare(b) ==
    MulColumns(Resize(b, 2 * Len(b)), Resize(b, 2 * Len(b)), 1, 0)

\* C11: the squared pixel count of every mapped class equals a_j * a_j, with
\* no wrap-around, for every non-negative int64 pixel count a_j.
C11_NoWrapAround ==
    n_j_px_sq # NoArr =>
        \A j \in 1..Len(a_j) :
            Resize(n_j_px_sq[j], 2 * Len(a_j[j])) = ExactSquare(a_j[j])

\* The terms of the variance of producer's accuracy of reference class i,
\* written out from cm, a_j, p_i and u_j.
PixelsOfReference(i) ==
    SumSeq([j \in Classes |-> Div(Mul(Num(a_j[j]), Num(cm[i][j])), ColSums[j])])
UserTerm(i, j) ==
    Div(Mul(Mul(Mul(Num(a_j[j] * a_j[j]), Sq(Sub(One, p_i[i]))), u_j[j]),
            Sub(One, u_j[j])),
        Sub(ColSums[j], One))
LeakTerm(i, j) ==
    LET r == Div(Num(cm[i][j]), ColSums[j])
    IN Div(Mul(Mul(Num(a_j[j] * a_j[j]), r), Sub(One, r)), Sub(ColSums[j], One))
T2(i) ==
    Mul(Sq(p_i[i]), SumSeq([j \in Classes |-> IF j = i THEN Zero ELSE LeakTerm(i, j)]))
Normalised(i, t) == Mul(Div(One, Sq(PixelsOfReference(i))), t)

\* C12 as stated: with all column sums above 1, compute_var_p_i(...)[i] is
\* (1 / n_i_px^2) * (T1 + T2) with T1 the user's-accuracy term summed over
\* all mapped classes j.
C12_AsStated ==
    (var_p_i # NoArr /\ AllColumnsAboveOne) =>
        \A i \in Classes :
            var_p_i[i] =
                Normalised(i, Add(SumSeq([j \in Classes |-> UserTerm(i, j)]), T2(i)))

\* C12 amended: with all column sums above 1, compute_var_p_i(...)[i] is
\* (1 / n_i_px^2) * (T1 + T2) with T1 the user's-accuracy term of class i
\* alone, a_i^2 * (1 - p_i)^2 * u_i * (1 - u_i) / (n_i - 1), and T2 as stated.
C12_VarianceFormula ==
    (var_p_i # NoArr /\ AllColumnsAboveOne) =>
        \A i \in Classes :
            var_p_i[i] = Normalised(i, Add(UserTerm(i, i), T2(i)))

C12_Witness ==
    /\ var_p_i # NoArr /\ AllColumnsAboveOne
    /\ \A i \in Classes : IsFin(var_p_i[i]) /\ var_p_i[i] # Zero
    /\ IsFin(UserTerm(1, 2)) /\ UserTerm(1, 2) # Zero
    /\ T2(1) # Zero /\ a_j[1] # a_j[2]

\* The arrays compute_var_p_i is given when the confusion matrix is c.
VarPIArguments(c) ==
    [p_i |-> p_i, u_j |-> u_j, a_j |-> a_j, cm |-> c,
     cm_div |-> NoArr, cm_div_comp |-> NoArr]

ColumnsAboveOne(c) ==
    \A j \in 1..NCols(c) : ~Leq(SumAxis0(AsFloatM(c))[j], One)

\* C13: for every class i and two confusion matrices that differ only in
\* cm[i,i], with the same a_j and all column sums above 1 in both, sigma[i] of
\* compute_var_p_i is the same.
C13_DiagonalInvariance ==
    (var_p_i # NoArr /\ ColumnsAboveOne(cm)) =>
        LET sigma == var_p_i_sigma(VarPIArguments(cm))
        IN \A i \in Classes : \A d \in 0..MaxSamples :
              LET cm2 == [cm EXCEPT ![i][i] = d]
              IN ColumnsAboveOne(cm2) =>
                    sigma[i] = var_p_i_sigma(VarPIArguments(cm2))[i]

C13_Witness ==
    /\ var_p_i # NoArr /\ ColumnsAboveOne(cm)
    /\ cm[1][1] > 0 /\ cm[2][1] > 1 /\ a_j[1] > 0 /\ a_j[2] > 0
    /\ IsFin(var_p_i_sigma(VarPIArguments(cm))[1])
    /\ var_p_i_sigma(VarPIArguments(cm))[1] # Zero

====
